---- MODULE Spec2Model ----
(***************************************************************************)
(* White 200: a colour guessing game.  The repository holds four copies of *)
(* the program:                                                            *)
(*   "main"  src/main.js            globals, submit(r, g, b)               *)
(*   "p002"  src/unnamed/part_002   main.js plus miss_cnt, score_history5  *)
(*   "p001"  src/unnamed/part_001   class Color, a state object            *)
(*   "p000"  src/unnamed/part_000   class Color, class Game, View          *)
(* One of them runs in a page; variant says which.  Texts are sequences of *)
(* one-character strings, numbers that JavaScript divides are fractions.   *)
(***************************************************************************)
EXTENDS Integers, Sequences, FiniteSets, TLC

VARIABLES
    variant,         \* the copy of the program that the page loaded
    ac_color,        \* main/p002: let ac_color
    ac_color_hex,    \* main/p002: let ac_color_hex
    color_step,      \* main/p002: let color_step
    start_time,      \* main/p002: let start_time ("undefined" before a round)
    try_num,         \* main/p002: let try_num
    score_num,       \* main/p002: let score_num (a fraction)
    enable_submit,   \* main/p002: let enable_submit; p001: the unused global
    score_history5,  \* p002: let score_history5
    miss_cnt,        \* p002: let miss_cnt, a partial map from hex text
    state,           \* p001: const state
    game,            \* p000: let game (Null or a Game)
    alt,             \* DOM: the swatches of the element 'list', in order
    target,          \* DOM: the text 'problem_text' and 'problem_color_box' show
    timers,          \* the pending setTimeout callbacks
    outcome,         \* the branch the last handler took and what it put on the page
    budget,          \* bound: submits the model still accepts in the running round
    rounds,          \* history: how many rounds were started
    valid_submits,   \* history: submits of the running round that parsed
    missed,          \* history: colour -> times it was missed in the running round
    args,            \* the arguments of a function called on its own (Null: none)
    result           \* what that call returned (Null: not called)

vars == <<variant, ac_color, ac_color_hex, color_step, start_time, try_num,
          score_num, enable_submit, score_history5, miss_cnt, state, game,
          alt, target, timers, outcome, budget, rounds, valid_submits, missed,
          args, result>>

\* JavaScript's null and undefined, and a Date holding a time in milliseconds
Null == [null |-> TRUE]
Undefined == [undefined |-> TRUE]
Date(t) == [ms |-> t]
getTime(d) == d.ms

----------------------------------------------------------------------------
(* Bounds of the model.                                                    *)

\* submits accepted in one round
MaxTries == 2
\* rounds started in one session
MaxRounds == 2
\* the most misses a long round begins with
MaxLateTries == 10
\* rounds started in one session of part_002 that fills the history
MaxHistRounds == 6
\* the longest array shuffle is called with on its own
MaxShuffleLen == 4

----------------------------------------------------------------------------
(* JavaScript arithmetic.                                                  *)

\* a % m of JavaScript: the sign of the result is the sign of a
JsRem(a, m) == IF a >= 0 THEN a % m ELSE -((-a) % m)

Abs(a) == IF a >= 0 THEN a ELSE -a

RECURSIVE Gcd(_, _)
Gcd(a, b) == IF b = 0 THEN a ELSE Gcd(b, a % b)

\* the number n / d (d > 0) in lowest terms
Frac(n, d) ==
    LET k == Gcd(Abs(n), d)
    IN  [n |-> n \div k, d |-> d \div k]

FracOfInt(i) == [n |-> i, d |-> 1]

\* a - b
FracSub(a, b) == Frac(a.n * b.d - b.n * a.d, a.d * b.d)

\* a + b
FracAdd(a, b) == Frac(a.n * b.d + b.n * a.d, a.d * b.d)


----------------------------------------------------------------------------
(* Texts: Number.prototype.toString(16), the hex text of a colour.         *)

HexDigits == <<"0", "1", "2", "3", "4", "5", "6", "7",
               "8", "9", "a", "b", "c", "d", "e", "f">>

UpperDigits == <<"0", "1", "2", "3", "4", "5", "6", "7",
                 "8", "9", "A", "B", "C", "D", "E", "F">>

RECURSIVE Digits16(_)
Digits16(n) ==
    IF n < 16 THEN <<HexDigits[n + 1]>>
    ELSE Digits16(n \div 16) \o <<HexDigits[(n % 16) + 1]>>

\* n.toString(16) for an integer n
toString16(n) == IF n < 0 THEN <<"-">> \o Digits16(-n) ELSE Digits16(n)

\* text.padStart(2, "0")
padStart2(text) == IF Len(text) < 2 THEN <<"0">> \o text ELSE text

\* main.js, part_002: one channel as text
ColorToHex(color) ==
    LET hexadecimal == toString16(color)
    IN  IF Len(hexadecimal) = 1 THEN <<"0">> \o hexadecimal ELSE hexadecimal

\* main.js, part_002: col is the array <<r, g, b>>
ConvertRGBtoHex(col) ==
    ColorToHex(col[1]) \o ColorToHex(col[2]) \o ColorToHex(col[3])

\* part_000, part_001: Color.paddedHex
paddedHex(n) == padStart2(toString16(JsRem(n, 256)))

\* the value of a hex digit of either case, -1 for any other character
HexVal(ch) ==
    IF \E k \in 1..16 : HexDigits[k] = ch
    THEN (CHOOSE k \in 1..16 : HexDigits[k] = ch) - 1
    ELSE IF \E k \in 1..16 : UpperDigits[k] = ch
         THEN (CHOOSE k \in 1..16 : UpperDigits[k] = ch) - 1
         ELSE -1

\* parseInt(text, 16) of two hex digits
parseInt16(text) == 16 * HexVal(text[1]) + HexVal(text[2])

----------------------------------------------------------------------------
(* class Color of part_000 and part_001.                                   *)

\* new Color(r, g, b)
Color(r, g, b) == [r |-> JsRem(r, 256), g |-> JsRem(g, 256), b |-> JsRem(b, 256)]

\* the regular expression of Color.fromHex matches hex at position i
MatchesAt(hex, i) ==
    /\ i + 6 <= Len(hex)
    /\ hex[i] = "#"
    /\ \A k \in 1..6 : HexVal(hex[i + k]) >= 0

\* Color.fromHex: the regular expression is not anchored, the leftmost match counts
fromHex(hex) ==
    IF \E i \in 1..Len(hex) : MatchesAt(hex, i)
    THEN LET i == CHOOSE i \in 1..Len(hex) :
                      /\ MatchesAt(hex, i)
                      /\ \A k \in 1..(i - 1) : ~MatchesAt(hex, k)
         IN  Color(parseInt16(SubSeq(hex, i + 1, i + 2)),
                   parseInt16(SubSeq(hex, i + 3, i + 4)),
                   parseInt16(SubSeq(hex, i + 5, i + 6)))
    ELSE Null

\* Color.toString (part_000), Color.toHex (part_001)
toHex(c) == <<"#">> \o paddedHex(c.r) \o paddedHex(c.g) \o paddedHex(c.b)

\* a value that is null or undefined, which !!v and v ? a : b take as false
Absent(v) == v \in {Null, Undefined}

\* Color.eq
eq(this, other) ==
    /\ ~Absent(other)
    /\ this.r = other.r
    /\ this.g = other.g
    /\ this.b = other.b

\* Color.diff
diff(this, other) ==
    IF ~Absent(other)
    THEN (this.r - other.r) * (this.r - other.r)
         + (this.g - other.g) * (this.g - other.g)
         + (this.b - other.b) * (this.b - other.b)
    ELSE -1

\* part_000: Color.cloneWithDiff
cloneWithDiff(this, r, g, b, multiplier) ==
    Color(this.r - r * multiplier, this.g - g * multiplier, this.b - b * multiplier)

\* part_001: Color.withDiff
withDiff(this, d) == Color(this.r + d.r, this.g + d.g, this.b + d.b)

----------------------------------------------------------------------------
(* Math.random and shuffle.                                                *)

\* Math.random() returns x / RandMod for a generator state x in 0..RandMod-1
RandMod == 65536

\* the generator's next state
NextRand(x) == (25173 * x + 13849) % RandMod

\* Math.floor(Math.random() * n) when the generator's state is x
RandomIndex(x, n) == (x * n) \div RandMod

\* array[i] = array[j] alone: the element at i is lost
Swap_lossy(array, i, j) == [array EXCEPT ![i + 1] = array[j + 1]]

\* [array[i], array[j]] = [array[j], array[i]], with indices from 0
Swap(array, i, j) ==
    [array EXCEPT ![i + 1] = array[j + 1], ![j + 1] = array[i + 1]]

\* the generator's state after k more calls of Math.random
RECURSIVE SkipRand(_, _)
SkipRand(x, k) ==
    IF k = 0 THEN x
    ELSE IF k = 1 THEN NextRand(x)
    ELSE LET y == SkipRand(x, k \div 2)
         IN  IF y >= 0 THEN SkipRand(y, k - (k \div 2)) ELSE y

\* the iterations i = hi, hi - 1, ..., lo of shuffle's loop, the generator in
\* state x before the first of them (the range is halved to keep the
\* evaluation shallow; the iterations run in the loop's order)
RECURSIVE shuffleLoop(_, _, _, _)
shuffleLoop(array, hi, lo, x) ==
    IF hi < lo THEN array
    ELSE IF hi = lo THEN Swap(array, hi, RandomIndex(x, hi + 1))
    ELSE LET mid == (hi + lo) \div 2
             upper == shuffleLoop(array, hi, mid + 1, x)
             y == SkipRand(x, hi - mid)
         IN  IF Len(upper) = Len(array) /\ y >= 0
             THEN shuffleLoop(upper, mid, lo, y)
             ELSE upper

\* shuffle(array): ([...array]) copies the argument, the generator starts in
\* state seed
shuffle(array, seed) ==
    shuffleLoop(SubSeq(array, 1, Len(array)), Len(array) - 1, 1, seed)

----------------------------------------------------------------------------
(* The inputs of the model.                                                *)

Variants == {"main", "p002", "p001", "p000"}

\* the argument num of make_problem and start
Counts == {1, 3, 216}

\* the argument dif of make_problem and start
Steps == {1, 3}

\* arguments num outside 1..216: no swatch, and one more than the list holds
BadCounts == {0, 217}

\* an argument dif that is not positive
BadSteps == {-1}

\* the least positive dif whose lattice has a channel below 0: 255 - 5 * 52
SteepStep == 52

\* the states Math.random's generator is in when shuffle starts
Seeds == {0}

\* the states Math.random's generator is in when the answer is drawn
AnswerDraws == {0, RandMod - 1}

\* the times new Date() returns
Times == {0, 10000, 10001}

\* the colour submit(r, g, b) is called with while the page has no swatch
ConsoleColors == {<<255, 255, 255>>}

\* texts submit(hex) is called with from outside the swatches
ExtraTexts == {<<"#", "f", "8", "f", "f", "f", "f">>, <<"#", "1", "2", "3", "4", "5">>}

----------------------------------------------------------------------------
(* The palette.                                                            *)

\* the last value of r, g and b in the loops that build the list
MaxOffset == 5

LatticeSize == (MaxOffset + 1) * (MaxOffset + 1) * (MaxOffset + 1)

\* the values of r, g, b when the loops push element k (from 1)
OffsetR(k) == (k - 1) \div ((MaxOffset + 1) * (MaxOffset + 1))
OffsetG(k) == ((k - 1) \div (MaxOffset + 1)) % (MaxOffset + 1)
OffsetB(k) == (k - 1) % (MaxOffset + 1)

\* main.js, part_002: list after the three loops of make_problem
list_main(dif) ==
    [k \in 1..LatticeSize |->
        <<255 - OffsetR(k) * dif, 255 - OffsetG(k) * dif, 255 - OffsetB(k) * dif>>]

\* part_001: list after the three loops of make_problem (dif is not used)
list_p001(dif) ==
    LET targetColor == fromHex(<<"#", "F", "F", "F", "F", "F", "F">>)
    IN  [k \in 1..LatticeSize |->
            withDiff(targetColor, [r |-> OffsetR(k), g |-> OffsetG(k), b |-> OffsetB(k)])]

\* part_000: colors after the three loops of the Game constructor
colors_p000(difficulty) ==
    LET white == Color(255, 255, 255)
    IN  [k \in 1..LatticeSize |->
            cloneWithDiff(white, OffsetR(k), OffsetG(k), OffsetB(k), difficulty)]

\* the list each copy of the program builds before it shuffles
Lattice(v, dif) ==
    CASE v \in {"main", "p002"} -> list_main(dif)
      [] v = "p001" -> list_p001(dif)
      [] v = "p000" -> colors_p000(dif)

\* shuffle(list) for every list and generator state the model uses
Shuffled ==
    [v \in Variants, dif \in Steps \cup BadSteps \cup {SteepStep}, seed \in Seeds |->
        shuffle(Lattice(v, dif), seed)]

\* a palette that is not cut to num colours
Slice_all(array, num) == array

\* array.slice(0, num)
Slice(array, num) == SubSeq(array, 1, IF num < Len(array) THEN num ELSE Len(array))

----------------------------------------------------------------------------
(* Values the handlers share.                                              *)

\* the text "---" of score_history5
Placeholder == [str |-> "---"]

\* an object without keys
EmptyMap == [key \in {} |-> 0]

\* the history of misses: one more miss of colour key
Tally(map, key) ==
    IF key \in DOMAIN map
    THEN [map EXCEPT ![key] = @ + 1]
    ELSE map @@ (key :> 1)

\* a count that stays 1 however often the colour misses
CountUp_once(map, key) ==
    IF key \in DOMAIN map THEN map ELSE map @@ (key :> 1)

\* map[key] = 1 for a new key, map[key]++ for a known one
CountUp(map, key) ==
    IF key \in DOMAIN map
    THEN [map EXCEPT ![key] = @ + 1]
    ELSE map @@ (key :> 1)

\* every round starting from 100
InitialScore_flat(dif) == FracOfInt(100)

\* (dif == 1) ? 1000 : 100
InitialScore(dif) == FracOfInt(IF dif = 1 THEN 1000 ELSE 100)

\* a counter that a submit leaves as it is
IncTry_none(n) == n

\* try_num++, state.tryCount++, ++this.tryCount
IncTry(n) == n + 1

\* an answer drawn from the whole list
PickAnswer_full(list, num, draw) == list[RandomIndex(draw, Len(list)) + 1]

\* list[Math.floor(Math.random() * num)], the generator in state draw; an index
\* the array does not have reads undefined
PickAnswer(list, num, draw) ==
    LET i == RandomIndex(draw, num) + 1
    IN  IF i \in 1..Len(list) THEN list[i] ELSE Undefined

\* a display that shows the whole part of the score
ac_scores_floor(score, time, tries) ==
    [score |-> FracOfInt(score.n \div score.d), time |-> time, try |-> tries]

\* what the element 'ac_scores' shows after a Hit
ac_scores(score, time, tries) == [score |-> score, time |-> time, try |-> tries]

\* a pending setTimeout(update_timer, 30) of main.js, part_002, part_001
GlobalTimer == [fn |-> "update_timer"]

\* a pending setTimeout of part_000: the closure keeps props
ViewTimer(props) == [fn |-> "View.updateTimer", startTime |-> props.startTime]

\* every timeout has the same delay of 30 ms, so the oldest pending callback
\* fires first; Fired is what stays pending
Fired == Tail(timers)

\* the clock does not run backwards after the round's start
ClockAfter(d, t) == t \in Times /\ t >= getTime(d)

globals == <<ac_color, ac_color_hex, color_step, start_time, try_num, score_num,
             enable_submit, score_history5, miss_cnt>>

\* the variables a handler leaves alone when it returns at once
page == <<alt, target, timers, budget, rounds, valid_submits, missed>>

----------------------------------------------------------------------------
(* main.js and part_002: the program of global variables.                  *)

\* the chain with the tests of the try count and of the time exchanged
Comment_swapped(step, tries, time) ==
    IF step # 1 THEN "tutorial"
    ELSE IF tries = 1 THEN "first_try"
    ELSE IF tries <= 10 THEN "within10"
    ELSE IF time <= 10000 THEN "fast"
    ELSE ""

\* the comment chain of submit (main.js, part_002)
Comment_globals(step, tries, time) ==
    IF step # 1 THEN "tutorial"
    ELSE IF tries = 1 THEN "first_try"
    ELSE IF time <= 10000 THEN "fast"
    ELSE IF tries <= 10 THEN "within10"
    ELSE ""

\* the squared distance, not divided by the step
Dif_unscaled(ac, col, step) ==
    Frac((ac[1] - col[1]) * (ac[1] - col[1])
         + (ac[2] - col[2]) * (ac[2] - col[2])
         + (ac[3] - col[3]) * (ac[3] - col[3]), 1)

\* ((ac_color[0]-r)**2 + (ac_color[1]-g)**2 + (ac_color[2]-b)**2) / color_step**2
Dif_globals(ac, col, step) ==
    Frac((ac[1] - col[1]) * (ac[1] - col[1])
         + (ac[2] - col[2]) * (ac[2] - col[2])
         + (ac[3] - col[3]) * (ac[3] - col[3]), step * step)

\* a history that takes the new score in front and drops the last one
PushHistory_front(history, score) == <<score>> \o SubSeq(history, 1, Len(history) - 1)

\* score_history5.shift(); score_history5.push(score_num)
PushHistory(history, score) == Append(Tail(history), score)

\* a history that every Hit of part_002 pushes to
HistoryAfterHit_always(rich, step, history, score) ==
    IF rich THEN PushHistory(history, score) ELSE history

\* if (color_step == 1) { shift, push }; main.js (rich = FALSE) has no history
HistoryAfterHit(rich, step, history, score) ==
    IF rich /\ step = 1 THEN PushHistory(history, score) ELSE history

\* the loop over score_history5 and the division that follows it
RECURSIVE AveLoop(_, _, _)
AveLoop(history, k, ave) ==
    IF k > Len(history) THEN ave
    ELSE IF history[k] = Placeholder THEN Placeholder
    ELSE AveLoop(history, k + 1, FracAdd(ave, history[k]))

\* an average that is the sum of the entries
Average_sum(history) == AveLoop(history, 1, FracOfInt(0))

Average(history) ==
    LET ave == AveLoop(history, 1, FracOfInt(0))
    IN  IF ave # Placeholder THEN Frac(ave.n, ave.d * 5) ELSE ave

\* a make_problem that keeps the counts of the round before
ResetMissCnt_kept(rich, old) == old

\* miss_cnt = {} of part_002's make_problem; main.js (rich = FALSE) has no miss_cnt
ResetMissCnt(rich, old) == IF rich THEN EmptyMap ELSE old

\* the body of make_problem(num, dif); rich is TRUE for part_002
make_problem_body(num, dif, seed, draw, t, rich) ==
    LET list == Shuffled[variant, dif, seed]
        answer == PickAnswer(list, num, draw)
    IN  /\ color_step' = dif
        /\ alt' = Slice(list, num)
        /\ ac_color' = answer
        /\ ac_color_hex' = ConvertRGBtoHex(answer)
        /\ target' = <<"#">> \o ConvertRGBtoHex(answer)
        /\ miss_cnt' = ResetMissCnt(rich, miss_cnt)
        /\ score_num' = InitialScore(dif)
        /\ try_num' = 0
        /\ start_time' = Date(t)
        /\ enable_submit' = TRUE
        /\ timers' = Append(timers, GlobalTimer)
        /\ outcome' = [kind |-> "Started", num |-> num, dif |-> dif]
        /\ budget' = MaxTries
        /\ rounds' = rounds + 1
        /\ valid_submits' = 0
        /\ missed' = EmptyMap
        /\ UNCHANGED <<variant, args, result, score_history5, state, game>>

\* a submit that counts the try before it looks at enable_submit
submit_ignored_counting ==
    /\ ~enable_submit
    /\ try_num' = IncTry(try_num)
    /\ outcome' = [kind |-> "NotArmed"]
    /\ UNCHANGED <<variant, args, result, ac_color, ac_color_hex, color_step, start_time, score_num,
                   enable_submit, score_history5, miss_cnt, state, game, page>>

\* make_problem(num, dif), while the session has rounds left
make_problem_globals(num, dif, seed, draw, t, rich) ==
    /\ rounds < MaxRounds
    /\ make_problem_body(num, dif, seed, draw, t, rich)

\* submit(r, g, b) when enable_submit is falsy
submit_ignored_globals ==
    /\ ~enable_submit
    /\ outcome' = [kind |-> "NotArmed"]
    /\ UNCHANGED <<variant, args, result, globals, state, game, page>>

\* submit(r, g, b), the branch col_hex == ac_color_hex; t is what new Date()
\* returns in update_timer
submit_hit_globals(col, t, rich) ==
    LET col_hex == ConvertRGBtoHex(col)
        tries == IncTry(try_num)
        time == t - getTime(start_time)
        report == ac_scores(score_num, time, tries)
        pushed == HistoryAfterHit(rich, color_step, score_history5, score_num)
    IN  /\ col_hex = ac_color_hex
        /\ ClockAfter(start_time, t)
        /\ try_num' = tries
        /\ timers' = Append(timers, GlobalTimer)
        /\ enable_submit' = FALSE
        /\ score_history5' = pushed
        /\ outcome' = [kind |-> "Hit", score |-> report.score, time |-> report.time,
                       try |-> report.try,
                       comment |-> Comment_globals(color_step, tries, time),
                       ave |-> IF rich /\ color_step = 1
                               THEN Average(pushed) ELSE Undefined]
        /\ budget' = budget - 1
        /\ valid_submits' = valid_submits + 1
        /\ UNCHANGED <<variant, args, result, ac_color, ac_color_hex, color_step, start_time,
                       score_num, miss_cnt, state, game, alt, target, rounds, missed>>

\* document.getElementById('col_' + col_hex) finds a swatch; part_002 throws
\* a TypeError when it does not, after the score is updated and before the
\* miss text is written
HasSwatch(col_hex) == \E i \in 1..Len(alt) : ConvertRGBtoHex(alt[i]) = col_hex

\* submit(r, g, b), the else branch
submit_miss_globals(col, rich) ==
    LET col_hex == ConvertRGBtoHex(col)
        dif == Dif_globals(ac_color, col, color_step)
        counted == IF rich THEN CountUp(miss_cnt, col_hex) ELSE miss_cnt
    IN  /\ col_hex # ac_color_hex
        /\ try_num' = IncTry(try_num)
        /\ miss_cnt' = counted
        /\ score_num' = FracSub(score_num, dif)
        /\ outcome' = [kind |-> "Miss", hex |-> col_hex, dif |-> dif,
                       miss_txt |-> IF rich /\ col_hex \in DOMAIN miss_cnt
                                    THEN counted[col_hex] ELSE 0,
                       hazure_text |-> ~rich \/ HasSwatch(col_hex)]
        /\ budget' = budget - 1
        /\ valid_submits' = valid_submits + 1
        /\ missed' = Tally(missed, col)
        /\ UNCHANGED <<variant, args, result, ac_color, ac_color_hex, color_step, start_time,
                       enable_submit, score_history5, state, game, alt, target,
                       timers, rounds>>

\* a submit without the test of enable_submit
submit_unguarded(col, rich) ==
    /\ budget > 0
    /\ \/ \E t \in Times : submit_hit_globals(col, t, rich)
       \/ submit_miss_globals(col, rich)

\* submit(r, g, b)
submit_globals(col, rich) ==
    \/ submit_ignored_globals
    \/ /\ enable_submit
       /\ budget > 0
       /\ \/ \E t \in Times : submit_hit_globals(col, t, rich)
          \/ submit_miss_globals(col, rich)

\* update_timer, called when the oldest pending timeout fires
update_timer_globals ==
    /\ timers # <<>>
    /\ timers' = IF enable_submit THEN Append(Fired, GlobalTimer) ELSE Fired
    /\ UNCHANGED <<variant, args, result, globals, state, game, alt, target, outcome, budget,
                   rounds, valid_submits, missed>>

\* src/main.js
make_problem_main(num, dif, seed, draw, t) ==
    variant = "main" /\ make_problem_globals(num, dif, seed, draw, t, FALSE)

submit_main(col) == variant = "main" /\ submit_globals(col, FALSE)

update_timer_main == variant = "main" /\ update_timer_globals

\* src/unnamed/part_002
make_problem(num, dif, seed, draw, t) ==
    variant = "p002" /\ make_problem_globals(num, dif, seed, draw, t, TRUE)

submit(col) == variant = "p002" /\ submit_globals(col, TRUE)

update_timer == variant = "p002" /\ update_timer_globals

----------------------------------------------------------------------------
(* part_001: class Color and the object state.                             *)

\* the comment chain of part_001's submit and of part_000's Game.onSuccess
Comment_classes(step, tries, time) ==
    IF step # 1 THEN "tutorial"
    ELSE IF tries = 1 THEN "first_try"
    ELSE IF time <= 10000 THEN "fast"
    ELSE ""

\* color.diff(answer) / colorStep ** 2
Diff_classes(color, answer, step) == Frac(diff(color, answer), step * step)

\* part_001: make_problem(num, dif)
make_problem_p001(num, dif, seed, draw, t) ==
    LET targetColor == fromHex(<<"#", "F", "F", "F", "F", "F", "F">>)
        list == Shuffled["p001", dif, seed]
    IN  /\ variant = "p001"
        /\ rounds < MaxRounds
        /\ alt' = Slice(list, num)
        /\ target' = toHex(targetColor)
        /\ state' = [acColor |-> PickAnswer(list, num, draw),
                     tryCount |-> 0,
                     score |-> InitialScore(dif),
                     readyForSubmission |-> TRUE,
                     startTime |-> Date(t),
                     colorStep |-> dif]
        /\ timers' = Append(timers, GlobalTimer)
        /\ outcome' = [kind |-> "Started", num |-> num, dif |-> dif]
        /\ budget' = MaxTries
        /\ rounds' = rounds + 1
        /\ valid_submits' = 0
        /\ missed' = EmptyMap
        /\ UNCHANGED <<variant, args, result, globals, game>>

\* part_001: submit(hex)
submit_p001(hex) ==
    LET color == fromHex(hex)
        tries == IncTry(state.tryCount)
        dif == Diff_classes(color, state.acColor, state.colorStep)
    IN  /\ variant = "p001"
        /\ \/ /\ ~state.readyForSubmission
              /\ outcome' = [kind |-> "NotArmed"]
              /\ UNCHANGED <<state, timers, budget, valid_submits, missed>>
           \/ /\ state.readyForSubmission
              /\ color = Null
              /\ outcome' = [kind |-> "InvalidInput"]
              /\ UNCHANGED <<state, timers, budget, valid_submits, missed>>
           \/ /\ state.readyForSubmission
              /\ color # Null
              /\ budget > 0
              /\ eq(color, state.acColor)
              /\ \E t \in Times :
                    LET time == t - getTime(state.startTime)
                        report == ac_scores(state.score, time, tries)
                    IN  /\ ClockAfter(state.startTime, t)
                        /\ outcome' = [kind |-> "Hit", score |-> report.score,
                                       time |-> report.time, try |-> report.try,
                                       comment |-> Comment_classes(state.colorStep,
                                                                   tries, time),
                                       ave |-> Undefined]
              /\ state' = [state EXCEPT !.tryCount = tries,
                                        !.readyForSubmission = FALSE]
              /\ timers' = Append(timers, GlobalTimer)
              /\ budget' = budget - 1
              /\ valid_submits' = valid_submits + 1
              /\ UNCHANGED missed
           \/ /\ state.readyForSubmission
              /\ color # Null
              /\ budget > 0
              /\ ~eq(color, state.acColor)
              /\ state' = [state EXCEPT !.tryCount = tries,
                                        !.score = FracSub(state.score, dif)]
              /\ outcome' = [kind |-> "Miss", hex |-> <<"#">> \o toHex(color),
                             dif |-> dif, miss_txt |-> 0, hazure_text |-> TRUE]
              /\ budget' = budget - 1
              /\ valid_submits' = valid_submits + 1
              /\ missed' = Tally(missed, color)
              /\ UNCHANGED timers
        /\ UNCHANGED <<variant, args, result, globals, game, alt, target, rounds>>

\* part_001: updateTimer, called when the oldest pending timeout fires
updateTimer_p001 ==
    /\ variant = "p001"
    /\ timers # <<>>
    /\ timers' = IF ~state.readyForSubmission \/ state.startTime = Null
                 THEN Fired
                 ELSE Append(Fired, GlobalTimer)
    /\ UNCHANGED <<variant, args, result, globals, state, game, alt, target, outcome, budget,
                   rounds, valid_submits, missed>>

----------------------------------------------------------------------------
(* part_000: class Color, class Game and View.                             *)

\* new Game(num, difficulty), then Game.start() at time t
NewGame(num, difficulty, seed, draw, t) ==
    LET colors == Slice(Shuffled["p000", difficulty, seed], num)
    IN  [score |-> InitialScore(difficulty),
         tryCount |-> 0,
         startTime |-> Date(t),
         colorStep |-> difficulty,
         colors |-> colors,
         answer |-> PickAnswer(colors, Len(colors), draw)]

\* start(num, dif): what it does to the page and to game
StartEffects(num, dif, seed, draw, t) ==
    LET g == NewGame(num, dif, seed, draw, t)
    IN  /\ rounds < MaxRounds
        /\ game' = g
        /\ alt' = g.colors
        /\ target' = toHex(g.answer)
        /\ timers' = Append(timers, ViewTimer(g))
        /\ budget' = MaxTries
        /\ rounds' = rounds + 1
        /\ valid_submits' = 0
        /\ missed' = EmptyMap

\* part_000: start(num, dif)
start_p000(num, dif, seed, draw, t) ==
    /\ variant = "p000"
    /\ StartEffects(num, dif, seed, draw, t)
    /\ outcome' = [kind |-> "Started", num |-> num, dif |-> dif]
    /\ UNCHANGED <<variant, args, result, globals, state>>

\* part_000: submit(hex) with Game.onTry, onSuccess and onFailure
submit_p000(hex) ==
    LET color == fromHex(hex)
        tries == IncTry(game.tryCount)
        dif == Diff_classes(color, game.answer, game.colorStep)
    IN  /\ variant = "p000"
        /\ \/ /\ game = Null
              /\ outcome' = [kind |-> "NotArmed"]
              /\ UNCHANGED <<game, page>>
           \/ /\ game # Null
              /\ color = Null
              /\ \E seed \in Seeds, draw \in AnswerDraws, t \in Times :
                    StartEffects(200, 3, seed, draw, t)
              /\ outcome' = [kind |-> "InvalidInput", num |-> 200, dif |-> 3]
           \/ /\ game # Null
              /\ color # Null
              /\ budget > 0
              /\ game.answer # Undefined
              /\ eq(game.answer, color)
              /\ \E t \in Times :
                    LET elapsed == t - getTime(game.startTime)
                        report == ac_scores(game.score, elapsed, tries)
                    IN  /\ ClockAfter(game.startTime, t)
                        /\ outcome' = [kind |-> "Hit", score |-> report.score,
                                       time |-> report.time, try |-> report.try,
                                       comment |-> Comment_classes(game.colorStep,
                                                                   tries, elapsed),
                                       ave |-> Undefined]
              /\ game' = Null
              /\ budget' = budget - 1
              /\ valid_submits' = valid_submits + 1
              /\ UNCHANGED <<alt, target, timers, rounds, missed>>
           \/ /\ game # Null
              /\ color # Null
              /\ budget > 0
              /\ game.answer # Undefined
              /\ ~eq(game.answer, color)
              /\ game' = [game EXCEPT !.tryCount = tries,
                                      !.score = FracSub(game.score, dif)]
              /\ outcome' = [kind |-> "Miss", hex |-> toHex(color), dif |-> dif,
                             miss_txt |-> 0, hazure_text |-> TRUE]
              /\ budget' = budget - 1
              /\ valid_submits' = valid_submits + 1
              /\ missed' = Tally(missed, color)
              /\ UNCHANGED <<alt, target, timers, rounds>>
        /\ UNCHANGED <<variant, args, result, globals, state>>

\* part_000: View.updateTimer(props), called when the oldest pending timeout fires
updateTimer_p000 ==
    /\ variant = "p000"
    /\ timers # <<>>
    /\ timers' = Append(Fired, ViewTimer(Head(timers)))
    /\ UNCHANGED <<variant, args, result, globals, state, game, alt, target, outcome, budget,
                   rounds, valid_submits, missed>>

----------------------------------------------------------------------------
(* The page.                                                               *)

\* the swatches the model clicks: the first and the last one
Clickable == IF Len(alt) = 0 THEN {} ELSE {1, Len(alt)}

\* main.js, part_002: onclick=submit(r,g,b) of a swatch; while the page has no
\* swatch, submit is called from outside
SubmitColors ==
    IF variant \in {"main", "p002"}
    THEN IF Len(alt) = 0 THEN ConsoleColors ELSE {alt[i] : i \in Clickable}
    ELSE {}

\* part_001, part_000: onclick="submit('#rrggbb')" of a swatch, and the texts
\* submit is called with from outside the swatches
SubmitTexts ==
    IF variant \in {"p001", "p000"}
    THEN {toHex(alt[i]) : i \in Clickable} \cup ExtraTexts
    ELSE {}

\* the page after the script has run and before any handler has
Loaded ==
    /\ ac_color = <<-1, -1, -1>>
    /\ ac_color_hex = <<>>
    /\ color_step = 0
    /\ start_time = Undefined
    /\ try_num = 0
    /\ score_num = FracOfInt(0)
    /\ enable_submit = FALSE
    /\ score_history5 = [k \in 1..5 |-> Placeholder]
    /\ miss_cnt = EmptyMap
    /\ state = [acColor |-> Null, tryCount |-> 0, score |-> FracOfInt(0),
                readyForSubmission |-> FALSE, startTime |-> Null, colorStep |-> 0]
    /\ game = Null
    /\ alt = <<>>
    /\ target = <<>>
    /\ timers = <<>>
    /\ outcome = [kind |-> "None"]
    /\ budget = 0
    /\ rounds = 0
    /\ valid_submits = 0
    /\ missed = EmptyMap

Init ==
    /\ variant \in Variants
    /\ Loaded
    /\ args = Null
    /\ result = Null

StartRound ==
    \E num \in Counts, dif \in Steps, seed \in Seeds, draw \in AnswerDraws, t \in Times :
        \/ make_problem_main(num, dif, seed, draw, t)
        \/ make_problem(num, dif, seed, draw, t)
        \/ make_problem_p001(num, dif, seed, draw, t)
        \/ start_p000(num, dif, seed, draw, t)

Submit ==
    \/ \E col \in SubmitColors :
          \/ submit_main(col)
          \/ submit(col)
    \/ \E hex \in SubmitTexts :
          \/ submit_p001(hex)
          \/ submit_p000(hex)

TimerFires ==
    \/ update_timer_main
    \/ update_timer
    \/ updateTimer_p001
    \/ updateTimer_p000

Next == StartRound \/ Submit \/ TimerFires

Spec == Init /\ [][Next]_vars

----------------------------------------------------------------------------
(* Long rounds: a first round of three swatches, started at time 0, in
   which the swatch that is not the answer was clicked k times.  The
   model then accepts one more submit in the round.                       *)

\* the swatch of a palette of three that is clicked and misses
WrongSwatch(palette, answer) ==
    IF palette[1] = answer THEN palette[3] ELSE palette[1]

\* the score after k misses of one colour
RECURSIVE AfterMisses(_, _, _)
AfterMisses(score, dif, k) ==
    IF k = 0 THEN score ELSE AfterMisses(FracSub(score, dif), dif, k - 1)

LateRound_globals(dif, draw, k, rich) ==
    LET list == Shuffled[variant, dif, 0]
        answer == PickAnswer(list, 3, draw)
        col == WrongSwatch(Slice(list, 3), answer)
        col_hex == ConvertRGBtoHex(col)
        pen == Dif_globals(answer, col, dif)
    IN  /\ color_step = dif
        /\ alt = Slice(list, 3)
        /\ ac_color = answer
        /\ ac_color_hex = ConvertRGBtoHex(answer)
        /\ target = <<"#">> \o ConvertRGBtoHex(answer)
        /\ miss_cnt = IF rich /\ k > 0 THEN (col_hex :> k) ELSE EmptyMap
        /\ score_num = AfterMisses(InitialScore(dif), pen, k)
        /\ try_num = k
        /\ start_time = Date(0)
        /\ enable_submit = TRUE
        /\ timers = <<GlobalTimer>>
        /\ outcome = IF k = 0
                     THEN [kind |-> "Started", num |-> 3, dif |-> dif]
                     ELSE [kind |-> "Miss", hex |-> col_hex, dif |-> pen,
                           miss_txt |-> IF rich /\ k > 1 THEN k ELSE 0,
                           hazure_text |-> TRUE]
        /\ missed = IF k > 0 THEN (col :> k) ELSE EmptyMap
        /\ score_history5 = [i \in 1..5 |-> Placeholder]
        /\ state = [acColor |-> Null, tryCount |-> 0, score |-> FracOfInt(0),
                    readyForSubmission |-> FALSE, startTime |-> Null, colorStep |-> 0]
        /\ game = Null

LateRound_p001(dif, draw, k) ==
    LET list == Shuffled["p001", dif, 0]
        answer == PickAnswer(list, 3, draw)
        col == fromHex(toHex(WrongSwatch(Slice(list, 3), answer)))
        pen == Diff_classes(col, answer, dif)
    IN  /\ alt = Slice(list, 3)
        /\ target = toHex(fromHex(<<"#", "F", "F", "F", "F", "F", "F">>))
        /\ state = [acColor |-> answer,
                    tryCount |-> k,
                    score |-> AfterMisses(InitialScore(dif), pen, k),
                    readyForSubmission |-> TRUE,
                    startTime |-> Date(0),
                    colorStep |-> dif]
        /\ timers = <<GlobalTimer>>
        /\ outcome = IF k = 0
                     THEN [kind |-> "Started", num |-> 3, dif |-> dif]
                     ELSE [kind |-> "Miss", hex |-> <<"#">> \o toHex(col), dif |-> pen,
                           miss_txt |-> 0, hazure_text |-> TRUE]
        /\ missed = IF k > 0 THEN (col :> k) ELSE EmptyMap
        /\ game = Null

LateRound_p000(dif, draw, k) ==
    LET g == NewGame(3, dif, 0, draw, 0)
        col == fromHex(toHex(WrongSwatch(g.colors, g.answer)))
        pen == Diff_classes(col, g.answer, dif)
    IN  /\ alt = g.colors
        /\ target = toHex(g.answer)
        /\ game = [g EXCEPT !.tryCount = k,
                            !.score = AfterMisses(InitialScore(dif), pen, k)]
        /\ timers = <<ViewTimer(g)>>
        /\ outcome = IF k = 0
                     THEN [kind |-> "Started", num |-> 3, dif |-> dif]
                     ELSE [kind |-> "Miss", hex |-> toHex(col), dif |-> pen,
                           miss_txt |-> 0, hazure_text |-> TRUE]
        /\ missed = IF k > 0 THEN (col :> k) ELSE EmptyMap
        /\ state = [acColor |-> Null, tryCount |-> 0, score |-> FracOfInt(0),
                    readyForSubmission |-> FALSE, startTime |-> Null, colorStep |-> 0]

\* the variables the classes of part_001 and part_000 do not have
Globals_untouched ==
    /\ ac_color = <<-1, -1, -1>>
    /\ ac_color_hex = <<>>
    /\ color_step = 0
    /\ start_time = Undefined
    /\ try_num = 0
    /\ score_num = FracOfInt(0)
    /\ enable_submit = FALSE
    /\ score_history5 = [i \in 1..5 |-> Placeholder]
    /\ miss_cnt = EmptyMap

LateRound(dif, draw, k) ==
    /\ args = Null
    /\ result = Null
    /\ budget = 1
    /\ rounds = 1
    /\ valid_submits = k
    /\ CASE variant = "main" -> LateRound_globals(dif, draw, k, FALSE)
         [] variant = "p002" -> LateRound_globals(dif, draw, k, TRUE)
         [] variant = "p001" -> Globals_untouched /\ LateRound_p001(dif, draw, k)
         [] variant = "p000" -> Globals_untouched /\ LateRound_p000(dif, draw, k)

\* the numbers of misses a long round begins with: the next submit is the
\* first or second one, or just below or above the tenth
LateTries == {0, 1, MaxLateTries - 1, MaxLateTries}

LateInit ==
    /\ variant \in Variants
    /\ \E dif \in Steps, draw \in AnswerDraws, k \in LateTries :
          LateRound(dif, draw, k)

SpecLate == LateInit /\ [][Next]_vars

----------------------------------------------------------------------------
(* Functions called on their own: args holds the arguments, result what
   the call returned.                                                     *)

\* sequences of length n over the set chars
TextsOf(chars, n) == [1..n -> chars]

\* texts for Color.fromHex: six or five characters after a '#', with and
\* without a character before and after, and without the '#'
HexTexts ==
    LET six == TextsOf({"a", "F", "g"}, 6)
        five == TextsOf({"a", "F"}, 5)
        pre == {<<>>, <<"x">>}
        post == {<<>>, <<"9">>}
    IN  {a \o <<"#">> \o t \o b : a \in pre, t \in six \cup five, b \in post}
        \cup {t \o b : t \in five, b \in post}

\* channel values for new Color(r, g, b)
ColorInts == {-257, -256, -1, 0, 255, 256, 511}

\* offsets and steps for white.cloneWithDiff(r, g, b, step); with step 51
\* the channel 255 - 5 * step is 0, with 52 it is below 0
CloneOffsets == {0, 3, MaxOffset}
CloneSteps == {1, 3, 51, 52, 103, 128}

\* arrays for shuffle, some with equal elements
ShuffleArrays == UNION {TextsOf({1, 2, 3}, n) : n \in 0..MaxShuffleLen}
ShuffleSeeds == {0, 4242, RandMod - 1}

CallArgs ==
    {[fn |-> "fromHex", hex |-> t] : t \in HexTexts}
    \cup {[fn |-> "Color", r |-> r, g |-> g, b |-> b] :
             r \in ColorInts, g \in ColorInts, b \in ColorInts}
    \cup {[fn |-> "cloneWithDiff", r |-> r, g |-> g, b |-> b, multiplier |-> m] :
             r \in CloneOffsets, g \in CloneOffsets, b \in CloneOffsets,
             m \in CloneSteps}
    \cup {[fn |-> "swatch", difficulty |-> d, k |-> k] :
             d \in CloneSteps, k \in 1..LatticeSize}
    \cup {[fn |-> "shuffle", array |-> a, seed |-> x] :
             a \in ShuffleArrays, x \in ShuffleSeeds}

\* the copies of the program that have the function
CalledIn(fn) ==
    CASE fn = "fromHex" -> {"p000", "p001"}
      [] fn = "shuffle" -> {"main", "p000"}
      [] OTHER -> {"p000"}

program == <<variant, globals, state, game, alt, target, timers, outcome, budget,
             rounds, valid_submits, missed>>

CallInit ==
    /\ args \in CallArgs
    /\ variant \in CalledIn(args.fn)
    /\ Loaded
    /\ result = Null

\* Color.fromHex(hex)
call_fromHex ==
    /\ args # Null /\ args.fn = "fromHex" /\ result = Null
    /\ result' = [value |-> fromHex(args.hex)]
    /\ UNCHANGED <<program, args>>

\* new Color(r, g, b)
call_Color ==
    /\ args # Null /\ args.fn = "Color" /\ result = Null
    /\ result' = [value |-> Color(args.r, args.g, args.b)]
    /\ UNCHANGED <<program, args>>

\* white.cloneWithDiff(r, g, b, difficulty) of the Game constructor
call_cloneWithDiff ==
    /\ args # Null /\ args.fn = "cloneWithDiff" /\ result = Null
    /\ result' = [value |-> cloneWithDiff(Color(255, 255, 255), args.r, args.g,
                                           args.b, args.multiplier)]
    /\ UNCHANGED <<program, args>>

\* the click of the swatch of colour k of a palette with step difficulty:
\* View.showPalette writes onclick="submit('${c}')", Game.onTry parses it
click_swatch ==
    /\ args # Null /\ args.fn = "swatch" /\ result = Null
    /\ LET c == colors_p000(args.difficulty)[args.k]
       IN  result' = [color |-> c, hex |-> toHex(c), value |-> fromHex(toHex(c))]
    /\ UNCHANGED <<program, args>>

\* an array that the caller of shuffle finds shuffled in place
ArgumentAfter_inplace(array, shuffled) == shuffled

\* the caller's array after shuffle(array): ([...array]) copied it
ArgumentAfter(array, shuffled) == array

\* shuffle(array), the generator in state seed
call_shuffle ==
    /\ args # Null /\ args.fn = "shuffle" /\ result = Null
    /\ LET shuffled == shuffle(args.array, args.seed)
       IN  /\ result' = [value |-> shuffled, given |-> args.array]
           /\ args' = [args EXCEPT !.array = ArgumentAfter(args.array, shuffled)]
    /\ UNCHANGED program

NextCalls ==
    call_fromHex \/ call_Color \/ call_cloneWithDiff \/ click_swatch \/ call_shuffle

SpecCalls == CallInit /\ [][NextCalls]_vars

----------------------------------------------------------------------------
(* Sessions of part_002: round after round of three swatches, so that the
   history of scores fills and its oldest entries leave it.               *)

HistInit == Init /\ variant = "p002"

HistStart ==
    \E dif \in Steps, draw \in AnswerDraws :
        /\ variant = "p002"
        /\ rounds < MaxHistRounds
        /\ make_problem_body(3, dif, 0, draw, 0, TRUE)

HistSubmit == \E col \in SubmitColors : submit(col)

HistNext == HistStart \/ HistSubmit \/ update_timer

SpecHist == HistInit /\ [][HistNext]_vars

----------------------------------------------------------------------------
(* Rounds started with arguments outside the documented ranges: a count
   outside 1..216 or a step that is not positive.  No copy of the program
   tests num or dif, so each call runs the code of a start as far as it
   gets.  rounds counts the calls.                                         *)

\* the pairs (num, dif) of which at least one is outside its range
BadArgs ==
    {a \in (Counts \cup BadCounts) \X (Steps \cup BadSteps) :
        a[1] \in BadCounts \/ a[2] \in BadSteps}

\* main.js, part_002: make_problem(num, dif) with num above the length of list.
\* The loop that writes the swatches reads list[216], which is undefined, and
\* ConvertRGBtoHex throws a TypeError: color_step is set and the palette is
\* emptied, the rest of make_problem does not run.
make_problem_overflow(num, dif) ==
    /\ variant \in {"main", "p002"}
    /\ num > LatticeSize
    /\ color_step' = dif
    /\ alt' = <<>>
    /\ outcome' = [kind |-> "TypeError", num |-> num, dif |-> dif]
    /\ rounds' = rounds + 1
    /\ UNCHANGED <<variant, args, result, ac_color, ac_color_hex, start_time, score_num,
                   try_num, enable_submit, score_history5, miss_cnt, state, game,
                   target, timers, budget, valid_submits, missed>>

\* part_000: start(num, dif) with a num that leaves colors empty.  answer is
\* colors[0] of an empty array; Game.start sets startTime and shows the empty
\* palette, then View.showTarget throws a TypeError on props.color.toString(),
\* before updateScore and updateTimer.  game already holds the new Game.
start_p000_empty(num, dif, seed, draw, t) ==
    LET g == NewGame(num, dif, seed, draw, t)
    IN  /\ variant = "p000"
        /\ g.answer = Undefined
        /\ game' = g
        /\ alt' = g.colors
        /\ target' = Undefined
        /\ outcome' = [kind |-> "TypeError", num |-> num, dif |-> dif]
        /\ budget' = MaxTries
        /\ rounds' = rounds + 1
        /\ valid_submits' = 0
        /\ missed' = EmptyMap
        /\ UNCHANGED <<variant, args, result, globals, state, timers>>

\* part_000: submit(hex) of a colour while game.answer is undefined: Game.onTry
\* counts the try, then this.answer.eq(color) throws a TypeError
onTry_undefined(hex) ==
    /\ variant = "p000"
    /\ game # Null
    /\ fromHex(hex) # Null
    /\ game.answer = Undefined
    /\ budget > 0
    /\ game' = [game EXCEPT !.tryCount = IncTry(game.tryCount)]
    /\ outcome' = [kind |-> "TypeError"]
    /\ budget' = budget - 1
    /\ UNCHANGED <<variant, args, result, globals, state, alt, target, timers, rounds,
                   valid_submits, missed>>

\* a round started as the page's buttons start it
GoodStart ==
    \E dif \in Steps, draw \in AnswerDraws :
        \/ make_problem_main(3, dif, 0, draw, 0)
        \/ make_problem(3, dif, 0, draw, 0)
        \/ make_problem_p001(3, dif, 0, draw, 0)
        \/ start_p000(3, dif, 0, draw, 0)

\* a start with arguments outside the ranges
BadStart ==
    \E a \in BadArgs, draw \in AnswerDraws :
        \/ /\ a[1] <= LatticeSize
           /\ \/ make_problem_main(a[1], a[2], 0, draw, 0)
              \/ make_problem(a[1], a[2], 0, draw, 0)
        \/ /\ rounds < MaxRounds
           /\ make_problem_overflow(a[1], a[2])
        \/ make_problem_p001(a[1], a[2], 0, draw, 0)
        \/ /\ a[1] > 0
           /\ start_p000(a[1], a[2], 0, draw, 0)
        \/ /\ rounds < MaxRounds
           /\ start_p000_empty(a[1], a[2], 0, draw, 0)

BadNext ==
    \/ GoodStart
    \/ BadStart
    \/ Submit
    \/ \E hex \in SubmitTexts : onTry_undefined(hex)
    \/ TimerFires

SpecBadStart == Init /\ [][BadNext]_vars

----------------------------------------------------------------------------
(* Rounds of a large step: dif is positive, and 5 * dif is above 255.      *)

\* the argument num: with 4 swatches the last one has a channel below 0 in
\* part_000
SteepCounts == {1, 4, 216}

SteepStart ==
    \E num \in SteepCounts, draw \in AnswerDraws :
        \/ make_problem_main(num, SteepStep, 0, draw, 0)
        \/ make_problem(num, SteepStep, 0, draw, 0)
        \/ make_problem_p001(num, SteepStep, 0, draw, 0)
        \/ start_p000(num, SteepStep, 0, draw, 0)

SteepNext == SteepStart \/ Submit \/ TimerFires

SpecSteep == Init /\ [][SteepNext]_vars

----------------------------------------------------------------------------
(* The engine as the four programs expose it.                              *)

Globals == variant \in {"main", "p002"}

\* part_000 keeps the round in the object game, which is null outside a round
HasRound == IF variant = "p000" THEN game # Null ELSE rounds > 0

Armed ==
    CASE Globals -> enable_submit
      [] variant = "p001" -> state.readyForSubmission
      [] variant = "p000" -> game # Null

TryCount ==
    CASE Globals -> try_num
      [] variant = "p001" -> state.tryCount
      [] variant = "p000" -> game.tryCount

Score ==
    CASE Globals -> score_num
      [] variant = "p001" -> state.score
      [] variant = "p000" -> game.score

ColorStep ==
    CASE Globals -> color_step
      [] variant = "p001" -> state.colorStep
      [] variant = "p000" -> game.colorStep

StartTime ==
    CASE Globals -> start_time
      [] variant = "p001" -> state.startTime
      [] variant = "p000" -> game.startTime

Answer ==
    CASE Globals -> ac_color
      [] variant = "p001" -> state.acColor
      [] variant = "p000" -> game.answer

\* the three channels of a colour, an array in main.js and part_002
Channels(c) == IF Globals THEN c ELSE <<c.r, c.g, c.b>>

\* the squared distance of two colours
SquaredDistance(c, d) ==
    LET x == Channels(c)
        y == Channels(d)
    IN  (x[1] - y[1]) * (x[1] - y[1]) + (x[2] - y[2]) * (x[2] - y[2])
        + (x[3] - y[3]) * (x[3] - y[3])

\* the number of misses of the running round
RECURSIVE MissTotal(_)
MissTotal(map) ==
    IF DOMAIN map = {} THEN 0
    ELSE LET c == CHOOSE k \in DOMAIN map : TRUE
         IN  map[c] + MissTotal([k \in DOMAIN map \ {c} |-> map[k]])

\* the penalties of the misses of the running round, as a fraction
RECURSIVE PenaltySum(_, _, _)
PenaltySum(map, answer, step) ==
    IF DOMAIN map = {} THEN FracOfInt(0)
    ELSE LET c == CHOOSE k \in DOMAIN map : TRUE
         IN  FracAdd(Frac(map[c] * SquaredDistance(c, answer), step * step),
                     PenaltySum([k \in DOMAIN map \ {c} |-> map[k]], answer, step))

\* a Hit has happened in the running round
RoundHit == valid_submits > MissTotal(missed)

\* the step is a call of startRound
StartStep == rounds' = rounds + 1

\* the step is a submit that took the Hit branch
HitStep == valid_submits' = valid_submits + 1 /\ outcome'.kind = "Hit"

\* what the engine holds besides the page's pending timers
engine == <<globals, state, game, alt, target, rounds, valid_submits, missed>>

----------------------------------------------------------------------------
(* C1: after a Hit and before the next startRound, a submit of any colour
   is ignored: it reports NotArmed, records no second Hit, and leaves
   tryCount, score, scoreHistory and missCounts as they were.            *)
C1_SubmitAfterHitIgnored ==
    [][(RoundHit /\ Submit) =>
          (outcome'.kind = "NotArmed" /\ UNCHANGED <<engine, timers>>)]_vars

\* a submit was ignored after the Hit of a round
C1_Witness == RoundHit /\ outcome.kind = "NotArmed" /\ rounds = 1

(* C2: a submit before startRound was ever called is ignored as NotArmed:
   the try counter and the score keep their values and no round starts.  *)
C2_SubmitBeforeStartIgnored ==
    [][(rounds = 0 /\ Submit) =>
          (outcome'.kind = "NotArmed" /\ ~Armed' /\ UNCHANGED <<engine, timers>>)]_vars

\* a submit was made before the first round
C2_Witness == rounds = 0 /\ outcome.kind = "NotArmed"

(* C3: while the engine is Armed every submit of a colour that parsed adds
   exactly one to tryCount, Hit or Miss, so tryCount is the number of such
   submits of the round, and the tryCount a Hit reports is that number and
   at least 1.                                                           *)
C3_TryCountCountsSubmits ==
    /\ HasRound => TryCount = valid_submits
    /\ outcome.kind = "Hit" => outcome.try = valid_submits /\ outcome.try >= 1

\* a Hit at the second submit of a round
C3_Witness == outcome.kind = "Hit" /\ outcome.try = 2 /\ MissTotal(missed) = 1

(* C4: each Miss takes squaredDistance(submitted, answer) / step^2 from the
   score, a repeated colour again, so the score of a round is its initial
   score minus the penalties of all its misses.                          *)
C4_ScoreIsInitialMinusPenalties ==
    HasRound =>
        Score = FracSub(FracOfInt(IF ColorStep = 1 THEN 1000 ELSE 100),
                        PenaltySum(missed, Answer, ColorStep))

\* a round in which one colour missed twice
C4_Witness ==
    /\ HasRound
    /\ \E c \in DOMAIN missed : missed[c] = 2 /\ SquaredDistance(c, Answer) > 0

(* C5: a Hit leaves the score as it is: the score it reports is the score
   before the winning submit, the initial score (1000 for step 1, else 100)
   when it is the first submit, and it leaves missCounts as they were.   *)
C5_HitKeepsScore ==
    [][HitStep =>
          /\ outcome'.score = Score
          /\ HasRound' => Score' = Score
          /\ outcome'.try = 1 =>
                outcome'.score = FracOfInt(IF ColorStep = 1 THEN 1000 ELSE 100)
          /\ miss_cnt' = miss_cnt]_vars

\* a Hit after a Miss that had lowered the score, in part_002 with a counted miss
C5_Witness ==
    /\ outcome.kind = "Hit"
    /\ outcome.try = 2
    /\ outcome.score # FracOfInt(1000)
    /\ outcome.score # FracOfInt(100)
    /\ DOMAIN miss_cnt # {}

(* C6: startRound(count, step), from any state, leaves the engine Armed with
   tryCount 0, score 1000 if step is 1 and 100 otherwise, colorStep = step
   and a start time.                                                     *)
C6_StartRoundArms ==
    outcome.kind = "Started" =>
        /\ Armed
        /\ TryCount = 0
        /\ Score = FracOfInt(IF outcome.dif = 1 THEN 1000 ELSE 100)
        /\ ColorStep = outcome.dif
        /\ StartTime \in {Date(t) : t \in Times}

\* a round started over an earlier one
C6_Witness == outcome.kind = "Started" /\ rounds = 2 /\ outcome.dif = 1

(* C7: startRound, from any state, leaves scoreHistory as it is and empties
   missCounts.                                                           *)
C7_StartRoundKeepsHistory ==
    [][StartStep => (score_history5' = score_history5 /\ DOMAIN miss_cnt' = {})]_vars

\* part_002: a second round, started with a score in the history
C7_Witness ==
    /\ variant = "p002"
    /\ outcome.kind = "Started"
    /\ rounds = 2
    /\ score_history5[5] # Placeholder
    /\ miss_cnt = EmptyMap

(* C8: the palette startRound(count, step) lays out has exactly count
   colours, all distinct, each one white minus (r*step, g*step, b*step)
   for offsets r, g, b in 0..5.                                          *)
C8_PaletteIsLattice ==
    outcome.kind = "Started" =>
        /\ Len(alt) = outcome.num
        /\ \A i, j \in 1..Len(alt) : alt[i] = alt[j] => i = j
        /\ \A i \in 1..Len(alt) :
              \E r, g, b \in 0..MaxOffset :
                 Channels(alt[i]) = <<255 - r * outcome.dif, 255 - g * outcome.dif,
                                      255 - b * outcome.dif>>

RoundComment(step, tries, time) ==
    CASE step # 1 -> "tutorial"
      [] step = 1 /\ tries = 1 -> "first_try"
      [] step = 1 /\ tries > 1 /\ time <= 10000 -> "fast"
      [] step = 1 /\ tries > 1 /\ time > 10000 /\ tries <= 10 -> "within10"
      [] OTHER -> ""

\* the rules without the one of the try count
RoundComment_short(step, tries, time) ==
    CASE step # 1 -> "tutorial"
      [] step = 1 /\ tries = 1 -> "first_try"
      [] step = 1 /\ tries > 1 /\ time <= 10000 -> "fast"
      [] OTHER -> ""

(* C10 as stated: the comment of a Hit is the tutorial comment when step is
   not 1, else the first-try comment when tryCount is 1, else the fast
   comment when the time is at most 10000 ms, else the low-try-count
   comment when tryCount <= 10, else empty.                              *)
C10_FiveRules ==
    [][HitStep =>
          outcome'.comment = RoundComment(ColorStep, outcome'.try, outcome'.time)]_vars

(* C10, amended: the comment of a Hit follows the five rules in main.js and
   part_002; part_001 and part_000 have no rule of the try count and give
   the empty comment wherever the first three rules do not apply.        *)
C10_RulesPerVariant ==
    [][HitStep =>
          outcome'.comment =
             IF Globals
             THEN RoundComment(ColorStep, outcome'.try, outcome'.time)
             ELSE RoundComment_short(ColorStep, outcome'.try, outcome'.time)]_vars

\* part_002: a Hit at the eleventh submit, later than 10000 ms: no comment
C10_Witness ==
    /\ variant = "p002"
    /\ outcome.kind = "Hit"
    /\ outcome.try = 11
    /\ outcome.time > 10000
    /\ outcome.comment = ""

\* every entry of the history is a score
AllScores(history) == \A i \in 1..Len(history) : history[i] # Placeholder

(* C11 as stated: every Hit pushes the final score of the round onto
   scoreHistory as its newest entry and drops the oldest one, and
   scoreHistory always has exactly 5 entries.                            *)
C11_EveryHitPushes ==
    /\ [](Len(score_history5) = 5)
    /\ [][HitStep => score_history5' = Append(Tail(score_history5), Score)]_vars

(* C11, amended: every Hit of a round with step 1 pushes the final score of
   the round onto scoreHistory as its newest entry and drops the oldest
   one, and scoreHistory always has exactly 5 entries; so after k such
   Hits its last min(k, 5) entries are their scores in order.            *)
C11_HardHitPushes ==
    /\ [](Len(score_history5) = 5)
    /\ [][(HitStep /\ ColorStep = 1) =>
             score_history5' = Append(Tail(score_history5), Score)]_vars

\* the Hit of a sixth round with five scores in the history, the newest
\* of them unlike the one before
C11_Witness ==
    /\ rounds = MaxHistRounds
    /\ outcome.kind = "Hit"
    /\ color_step = 1
    /\ AllScores(score_history5)
    /\ score_history5[5] = outcome.score
    /\ score_history5[5] # score_history5[4]

(* C12: scoreHistory changes only at the Hit of a round with step 1, which
   puts the score of that round last: a Hit with another step, a Miss, a
   startRound leave it as it is.                                         *)
C12_OnlyHardRoundsInHistory ==
    [][(score_history5' # score_history5) =>
          (HitStep /\ ColorStep = 1 /\ score_history5'[5] = Score)]_vars

\* the Hit of a tutorial round after a round with step 1 was won
C12_Witness ==
    /\ outcome.kind = "Hit"
    /\ color_step # 1
    /\ score_history5[5] # Placeholder
    /\ rounds >= 3

\* the sum of five fractions
SumOfFive(history) ==
    FracAdd(history[1], FracAdd(history[2], FracAdd(history[3],
            FracAdd(history[4], history[5]))))

(* C13: a Hit with step 1 reports the rolling average as a number exactly
   when all 5 entries of scoreHistory, after the push, are scores, and
   then it is their sum divided by 5; with a placeholder left, the
   average is reported as unavailable.                                   *)
C13_AverageOfFive ==
    (variant = "p002" /\ outcome.kind = "Hit" /\ color_step = 1) =>
        IF AllScores(score_history5)
        THEN LET sum == SumOfFive(score_history5)
             IN  outcome.ave = Frac(sum.n, sum.d * 5)
        ELSE outcome.ave = Placeholder

\* an average of five scores that are not all the same
C13_Witness ==
    /\ variant = "p002"
    /\ outcome.kind = "Hit"
    /\ color_step = 1
    /\ AllScores(score_history5)
    /\ outcome.ave # Placeholder
    /\ outcome.ave # outcome.score

(* C14: within a round missCounts[hex] is the number of Miss submits of
   that hex since startRound, and a hex never missed has no entry; the
   repeat count a Miss shows is that number, the current miss included
   (the first miss of a hex shows none).                                 *)
C14_MissCountsCountMisses ==
    variant = "p002" =>
        /\ DOMAIN miss_cnt = {ConvertRGBtoHex(c) : c \in DOMAIN missed}
        /\ \A c \in DOMAIN missed : miss_cnt[ConvertRGBtoHex(c)] = missed[c]
        /\ outcome.kind = "Miss" =>
              outcome.miss_txt = IF miss_cnt[outcome.hex] = 1
                                 THEN 0 ELSE miss_cnt[outcome.hex]

\* part_002: the second miss of one colour
C14_Witness ==
    /\ variant = "p002"
    /\ outcome.kind = "Miss"
    /\ outcome.miss_txt = 2
    /\ miss_cnt[outcome.hex] = 2

\* the step is a submit, in an Armed round, of a text that Color.fromHex rejects
InvalidStep ==
    /\ Armed
    /\ \E hex \in SubmitTexts :
          /\ fromHex(hex) = Null
          /\ submit_p001(hex) \/ submit_p000(hex)

(* C15 as stated: a submit, during an Armed round, of a text Color.fromHex
   rejects is InvalidInput and leaves tryCount, score, answer, palette and
   the armed flag as they were: the round goes on.                       *)
C15_InvalidLeavesRound ==
    [][InvalidStep =>
          /\ outcome'.kind = "InvalidInput"
          /\ UNCHANGED <<state, game, alt, target, rounds, valid_submits, missed>>]_vars

(* C15, amended: in part_001 such a submit leaves tryCount, score, answer,
   palette and the armed flag as they were; in part_000 it replaces the
   round by a new Armed round of 200 colours with step 3 (tryCount 0,
   score 100, a new palette and answer).                                 *)
C15_InvalidPerVariant ==
    [][InvalidStep =>
          /\ outcome'.kind = "InvalidInput"
          /\ IF variant = "p001"
             THEN UNCHANGED <<state, game, alt, target, rounds, valid_submits, missed>>
             ELSE /\ game' # Null
                  /\ game'.tryCount = 0
                  /\ game'.score = FracOfInt(100)
                  /\ game'.colorStep = 3
                  /\ Len(alt') = 200
                  /\ \E i \in 1..Len(alt') : alt'[i] = game'.answer
                  /\ rounds' = rounds + 1]_vars

\* part_000: a round of 200 colours that an invalid text started
C15_Witness ==
    /\ variant = "p000"
    /\ outcome.kind = "InvalidInput"
    /\ Len(alt) = 200
    /\ game.colorStep = 3

\* the characters 0-9, a-f, A-F
IsHexChar(ch) ==
    ch \in {"0", "1", "2", "3", "4", "5", "6", "7", "8", "9",
            "a", "b", "c", "d", "e", "f", "A", "B", "C", "D", "E", "F"}

\* the text is '#' and six hexadecimal digits, nothing else
ExactHex(text) ==
    /\ Len(text) = 7
    /\ text[1] = "#"
    /\ \A k \in 2..7 : IsHexChar(text[k])

(* C16: Color.fromHex returns a Color for a text that is exactly '#' and six
   hexadecimal digits of either case, and absent for every other text,
   also one that is longer or has characters before the '#' or after the
   sixth digit.                                                          *)
C16_FromHexExact ==
    (result # Null /\ args.fn = "fromHex") =>
        (result.value # Null <=> ExactHex(args.hex))

(* C17: for every colour c of a generated palette, for any positive step,
   Color.fromHex(c.toHex()) is present and equal to c channel by channel. *)
C17_PaletteRoundTrip ==
    (result # Null /\ args.fn = "swatch") =>
        /\ result.value # Null
        /\ result.value.r = result.color.r
        /\ result.value.g = result.color.g
        /\ result.value.b = result.color.b

\* the channel is in 0..255 and congruent modulo 256 to the requested value
Normalised(channel, requested) ==
    /\ channel \in 0..255
    /\ (channel - requested) % 256 = 0

(* C18: every Color the constructor or cloneWithDiff builds has each
   channel in 0..255 and congruent modulo 256 to the requested value,
   also when the step makes 255 - 5 * step negative.                     *)
C18_ChannelsNormalised ==
    /\ (result # Null /\ args.fn = "Color") =>
          /\ Normalised(result.value.r, args.r)
          /\ Normalised(result.value.g, args.g)
          /\ Normalised(result.value.b, args.b)
    /\ (result # Null /\ args.fn = "cloneWithDiff") =>
          /\ Normalised(result.value.r, 255 - args.r * args.multiplier)
          /\ Normalised(result.value.g, 255 - args.g * args.multiplier)
          /\ Normalised(result.value.b, 255 - args.b * args.multiplier)

\* the armed flag, the answer, the try count and the score; part_000 holds
\* them in game, which is null while no round is armed
EngineFields ==
    CASE Globals -> <<enable_submit, ac_color, try_num, score_num>>
      [] variant = "p001" ->
            <<state.readyForSubmission, state.acColor, state.tryCount, state.score>>
      [] variant = "p000" ->
            IF game = Null THEN <<FALSE>>
            ELSE <<TRUE, game.answer, game.tryCount, game.score>>

\* the step is a call of a start with arguments outside the ranges
BadStartStep ==
    /\ rounds' = rounds + 1
    /\ outcome'.kind \in {"Started", "TypeError"}
    /\ <<outcome'.num, outcome'.dif>> \in BadArgs

(* C19: a call of startRound with a count outside 1..216 or with a step
   that is not positive fails with an error and leaves the armed flag, the
   answer, the try count and the score as they were; and no round is ever
   armed with an undefined answer.                                         *)
C19_BadStartRejected ==
    /\ [](~(EngineFields[1] /\ EngineFields[2] = Undefined))
    /\ [][BadStartStep => /\ outcome'.kind # "Started"
                          /\ EngineFields' = EngineFields]_vars

\* how often v is an element of array
Occurrences(array, v) == Cardinality({i \in 1..Len(array) : array[i] = v})

(* C20: shuffle returns a permutation of its argument (the same length, the
   same elements as often), leaves the argument array as it was, and
   draws every swap index j in 0..i, for i from the last index down to 1. *)
C20_ShufflePermutes ==
    (result # Null /\ args.fn = "shuffle") =>
        /\ Len(result.value) = Len(result.given)
        /\ \A v \in {1, 2, 3} :
              Occurrences(result.value, v) = Occurrences(result.given, v)
        /\ args.array = result.given
        /\ \A i \in 1..(Len(result.given) - 1) :
              RandomIndex(SkipRand(args.seed, Len(result.given) - 1 - i), i + 1)
                 \in 0..i

\* an array of four with equal elements that came back in another order
C20_Witness ==
    /\ result # Null
    /\ args.fn = "shuffle"
    /\ Len(result.given) = 4
    /\ result.given[1] = result.given[2]
    /\ result.value # result.given

(* C21: timer ticks are rendered only while a round is Armed: a timer
   callback that fires while no round is Armed renders nothing and does
   not schedule itself again, so the callbacks die out after every Hit.   *)
C21_TimerStopsWhenSolved ==
    [][(TimerFires /\ ~Armed) => timers' = Fired]_vars

\* the pending callbacks that schedule themselves again when they fire now:
\* update_timer and updateTimer do so while the round is Armed,
\* View.updateTimer always
Rescheduling == IF variant = "p000" \/ Armed THEN Len(timers) ELSE 0

(* C22: under every interleaving of startRound calls, submits and timer
   callbacks, at most one self-rescheduling timer callback is pending.    *)
C22_OneTimerLoop == Rescheduling <= 1

\* the answer as the page writes a colour: '#' and six hex digits
AnswerText ==
    IF Globals THEN <<"#">> \o ConvertRGBtoHex(ac_color) ELSE toHex(Answer)

(* C23: after startRound the target colour shown to the player, as text
   and in the colour box, is the answer of the round.                     *)
C23_TargetIsAnswer == outcome.kind = "Started" => target = AnswerText

(* C24: in every state of part_002 the values of missCounts add up to
   tryCount while the round is Armed, and to tryCount - 1 once the round
   is Solved.                                                             *)
C24_MissesAndTries ==
    variant = "p002" =>
        /\ Armed => MissTotal(miss_cnt) = try_num
        /\ (rounds > 0 /\ ~Armed) => MissTotal(miss_cnt) = try_num - 1

\* part_002: a round solved at the second try, after a miss
C24_Witness ==
    /\ variant = "p002"
    /\ rounds > 0
    /\ ~Armed
    /\ try_num = 2
    /\ MissTotal(miss_cnt) = 1

\* a < b for two fractions
FracLess(a, b) == a.n * b.d < b.n * a.d

\* the step is the click of swatch i in an Armed round
SwatchClick(i) ==
    /\ Armed
    /\ budget > 0
    /\ IF Globals
       THEN submit_main(alt[i]) \/ submit(alt[i])
       ELSE submit_p001(toHex(alt[i])) \/ submit_p000(toHex(alt[i]))

(* C25: the submit of a palette colour is a Hit exactly when its squared
   distance to the answer is 0; every Miss lowers the score, and the score
   of a round never exceeds its initial score.                            *)
C25_HitIffDistanceZero ==
    /\ [](HasRound => ~FracLess(InitialScore(ColorStep), Score))
    /\ [][\A i \in 1..Len(alt) :
            SwatchClick(i) =>
               /\ outcome'.kind = "Hit" <=> SquaredDistance(alt[i], Answer) = 0
               /\ outcome'.kind = "Miss" => FracLess(Score', Score)]_vars

\* the number of placeholders in the history
Placeholders(history) ==
    Cardinality({i \in 1..Len(history) : history[i] = Placeholder})

\* the placeholders are the oldest entries
PlaceholdersFirst(history) ==
    \A i \in 1..Len(history) : i <= Placeholders(history) <=> history[i] = Placeholder

\* the step completes a round of step 1
HardHitStep == HitStep /\ ColorStep = 1

(* C26: the placeholders of scoreHistory are its oldest entries and their
   number is max(0, 5 - completed rounds of step 1): 5 when the page is
   loaded, one less after every Hit of step 1 as long as there is one, and
   the same after every other step.  So once a Hit of step 1 has reported
   the rolling average as a number, every later one does.                 *)
C26_PlaceholdersArePrefix ==
    /\ Placeholders(score_history5) = 5
    /\ [](PlaceholdersFirst(score_history5))
    /\ [][/\ Placeholders(score_history5') =
               IF HardHitStep
               THEN IF Placeholders(score_history5) > 0
                    THEN Placeholders(score_history5) - 1 ELSE 0
               ELSE Placeholders(score_history5)
          /\ (HardHitStep /\ AllScores(score_history5)) =>
                outcome'.ave \notin {Placeholder, Undefined}]_vars

\* part_002: a Hit of step 1 in the last round of a session, the history full
C26_Witness ==
    /\ variant = "p002"
    /\ rounds = MaxHistRounds
    /\ outcome.kind = "Hit"
    /\ color_step = 1
    /\ Placeholders(score_history5) = 0
    /\ score_history5[1] # score_history5[5]

====
